---- MODULE Spec2Model ----
(***************************************************************************)
(* Model of Signals/pyCode/Predictors/ShortConviction.py: a batch pipeline *)
(* that loads three monthly tables, joins them, lags returns and the short *)
(* interest ratio, builds the raw conviction score, clips it to [-3, 3],   *)
(* standardizes it by month and hands a three-column frame to              *)
(* save_predictor.                                                         *)
(*                                                                         *)
(* Numbers are float64 values modelled exactly: a value is a pair <<n, d>> *)
(* with d >= 0.  d > 0 is the rational n/d in lowest terms, <<1, 0>> is    *)
(* +inf, <<-1, 0>> is -inf and <<0, 0>> is NaN, which is also pandas'      *)
(* missing value of a float column.  Rounding and the sign of zero are not *)
(* modelled.                                                               *)
(***************************************************************************)
EXTENDS Integers, Sequences, FiniteSets, TLC

VARIABLES pc, signal_master, monthly_crsp, monthly_short,
          df, df_missing_gvkey, output

vars == <<pc, signal_master, monthly_crsp, monthly_short,
          df, df_missing_gvkey, output>>

(***************************************************************************)
(* float64 arithmetic                                                      *)
(***************************************************************************)
Abs(n) == IF n < 0 THEN -n ELSE n

Sgn(n) == IF n > 0 THEN 1 ELSE IF n < 0 THEN -1 ELSE 0

RECURSIVE Gcd(_, _)
Gcd(a, b) == IF b = 0 THEN a ELSE Gcd(b, a % b)

\* The value n/d: lowest terms, positive denominator; n/0 is +-inf, 0/0 is NaN.
Norm(n, d) ==
    IF d = 0 THEN <<Sgn(n), 0>>
    ELSE LET g == Gcd(Abs(n), Abs(d))
             s == Sgn(d)
         IN  <<(s * n) \div g, (s * d) \div g>>

Rat(n, d) == Norm(n, d)

NaN == <<0, 0>>

PosInf == <<1, 0>>

NegInf == <<-1, 0>>

Zero == <<0, 1>>

One == <<1, 1>>

IsNaN(x) == x = NaN

NotNa(x) == x # NaN

IsFinite(x) == x[2] > 0

FNeg(x) == <<-x[1], x[2]>>

FAdd(x, y) ==
    IF IsNaN(x) \/ IsNaN(y) THEN NaN
    ELSE IF x[2] = 0 /\ y[2] = 0 THEN (IF x = y THEN x ELSE NaN)
    ELSE IF x[2] = 0 THEN x
    ELSE IF y[2] = 0 THEN y
    ELSE LET g == Gcd(x[2], y[2])
         IN  Norm(x[1] * (y[2] \div g) + y[1] * (x[2] \div g), (x[2] \div g) * y[2])

FSub(x, y) == FAdd(x, FNeg(y))

\* inf * 0 and anything * NaN have numerator 0 over denominator 0: NaN.
FMul(x, y) ==
    IF IsFinite(x) /\ IsFinite(y)
    THEN LET g == Gcd(Abs(x[1]), y[2])
             h == Gcd(Abs(y[1]), x[2])
         IN  Norm((x[1] \div g) * (y[1] \div h), (x[2] \div h) * (y[2] \div g))
    ELSE Norm(x[1] * y[1], x[2] * y[2])

\* 1/y: 1/0 is +inf, 1/inf is 0, 1/NaN is NaN.
FRecip(y) ==
    IF y[1] > 0 THEN <<y[2], y[1]>>
    ELSE IF y[1] < 0 THEN <<-y[2], -y[1]>>
    ELSE IF y[2] > 0 THEN PosInf
    ELSE NaN

\* x/y: finite/0 is +-inf, 0/0 and inf/inf are NaN; no exception is raised.
FDiv(x, y) == FMul(x, FRecip(y))

\* x > y; False when either side is NaN.
FGt(x, y) ==
    /\ NotNa(x)
    /\ NotNa(y)
    /\ x # y
    /\ IF x[2] = 0 THEN x = PosInf
       ELSE IF y[2] = 0 THEN y = NegInf
       ELSE x[1] * y[2] > y[1] * x[2]

FLt(x, y) == FGt(y, x)

(***************************************************************************)
(* The input tables.  A table is a sequence of rows.  The tables a load    *)
(* can return are a base panel (every security present in every month,    *)
(* with its own gvkey, shares and short interest) with at most MaxEdits    *)
(* cells changed over the three tables together: a cell is the rows of one *)
(* key, and a change removes the row, duplicates the key, or replaces one  *)
(* value (by a missing value, a zero, or another number).                  *)
(***************************************************************************)
MaxPermno == 3

\* The longest lag of step 3: stata_multi_lag(..., [1, 2]) and (..., [2]).
MaxLag == 2

\* The months of a panel: a month and the MaxLag months before it.
MaxMonth == MaxLag + 1

MaxEdits == 1

Permnos == 1..MaxPermno

Months == 1..MaxMonth

Gvkeys == Permnos

Cells == 1..(MaxPermno * MaxMonth)

\* Cells are laid out month by month, so a loaded table is not sorted by permno.
CellMonth(c) == ((c - 1) \div MaxPermno) + 1

CellId(c) == ((c - 1) % MaxPermno) + 1

NoGvkey == <<>>

BaseGvkey(p) == <<p>>

OtherGvkey(p) == <<(p % MaxPermno) + 1>>

BaseRet(p) == IF p % 3 = 0 THEN Rat(-1, 2) ELSE Rat(1, 2)

RetValues == {NaN, Rat(-1, 2), Rat(-1, 3), Rat(1, 2)}

BaseShrout(p) == One

ShroutValues == {NaN, Zero, One, Rat(2, 1)}

BaseShortInt(g, t) == Rat(((t + 1) \div 2) + (IF g % 3 = 0 THEN 1 ELSE 0), 1)

ShortIntValues == {NaN, Zero, One, Rat(4, 1)}

MasterRow(p, t, g, r) == [permno |-> p, time_avail_m |-> t, gvkey |-> g, ret |-> r]

CrspRow(p, t, s) == [permno |-> p, time_avail_m |-> t, shrout |-> s]

ShortRow(g, t, s) == [gvkey |-> g, time_avail_m |-> t, shortint |-> s]

MasterBase(c) == <<MasterRow(CellId(c), CellMonth(c), BaseGvkey(CellId(c)), BaseRet(CellId(c)))>>

CrspBase(c) == <<CrspRow(CellId(c), CellMonth(c), BaseShrout(CellId(c)))>>

ShortBase(c) == <<ShortRow(BaseGvkey(CellId(c)), CellMonth(c), BaseShortInt(CellId(c), CellMonth(c)))>>

MasterOptions(c) ==
    LET p == CellId(c)
        t == CellMonth(c)
    IN  {<<>>, MasterBase(c) \o <<MasterRow(p, t, BaseGvkey(p), Zero)>>}
            \cup {<<MasterRow(p, t, g, BaseRet(p))>> : g \in {NoGvkey, OtherGvkey(p)}}
            \cup {<<MasterRow(p, t, BaseGvkey(p), r)>> : r \in RetValues}

CrspOptions(c) ==
    LET p == CellId(c)
        t == CellMonth(c)
    IN  {<<>>, CrspBase(c) \o <<CrspRow(p, t, Rat(2, 1))>>}
            \cup {<<CrspRow(p, t, s)>> : s \in ShroutValues}

ShortOptions(c) ==
    LET g == BaseGvkey(CellId(c))
        t == CellMonth(c)
    IN  {<<>>, ShortBase(c) \o <<ShortRow(g, t, Zero)>>}
            \cup {<<ShortRow(g, t, s)>> : s \in ShortIntValues}

\* The panels (cell -> rows) that differ from the panel base in at most k cells;
\* options[c] are the contents cell c can be changed to.
RECURSIVE Edited(_, _, _)
Edited(base, options, k) ==
    IF k = 0 THEN {base}
    ELSE LET prev == Edited(base, options, k - 1)
         IN  prev \cup UNION {{[f EXCEPT ![c] = o] : o \in options[c]} : f \in prev, c \in Cells}

\* The table of a panel: its cells' rows, in the order of the cells.
RECURSIVE Flatten(_, _)
Flatten(panel, n) == IF n = 0 THEN <<>> ELSE Flatten(panel, n - 1) \o panel[n]

TableOf(panel) == Flatten(panel, MaxPermno * MaxMonth)

MasterPanels(k) == Edited([c \in Cells |-> MasterBase(c)], [c \in Cells |-> MasterOptions(c)], k)

CrspPanels(k) == Edited([c \in Cells |-> CrspBase(c)], [c \in Cells |-> CrspOptions(c)], k)

ShortPanels(k) == Edited([c \in Cells |-> ShortBase(c)], [c \in Cells |-> ShortOptions(c)], k)
\* The cell's rows of a loaded table, and the number of changed cells in it.
MasterEdits(table) ==
    Cardinality({c \in Cells :
        SelectSeq(table, LAMBDA r : r.permno = CellId(c) /\ r.time_avail_m = CellMonth(c))
            # MasterBase(c)})

CrspEdits(table) ==
    Cardinality({c \in Cells :
        SelectSeq(table, LAMBDA r : r.permno = CellId(c) /\ r.time_avail_m = CellMonth(c))
            # CrspBase(c)})

(***************************************************************************)
(* Data frame operations                                                   *)
(***************************************************************************)
\* frame[col].isna() / notna() of the key column gvkey.
GvkeyIsNa(r) == r.gvkey = NoGvkey

\* No two rows of the frame share (permno, time_avail_m).
PermnoKeysUnique(frame) ==
    \A i, j \in 1..Len(frame) :
        (frame[i].permno = frame[j].permno /\ frame[i].time_avail_m = frame[j].time_avail_m)
            => i = j

\* No two rows of the frame share (gvkey, time_avail_m).
GvkeyKeysUnique(frame) ==
    \A i, j \in 1..Len(frame) :
        (frame[i].gvkey = frame[j].gvkey /\ frame[i].time_avail_m = frame[j].time_avail_m)
            => i = j

\* pd.merge(left, right, on=[permno, time_avail_m], how="inner"): the left rows in
\* their order, each once per matching right row, with the right row's shrout.
RECURSIVE MergeInnerCrsp(_, _)
MergeInnerCrsp(left, right) ==
    IF left = <<>> THEN <<>>
    ELSE LET l == Head(left)
             m == SelectSeq(right, LAMBDA r : r.permno = l.permno
                                              /\ r.time_avail_m = l.time_avail_m)
         IN  [i \in 1..Len(m) |-> l @@ [shrout |-> m[i].shrout]]
                 \o MergeInnerCrsp(Tail(left), right)

\* Faulty variant: the second merge as an inner join, which drops the rows without a match.
RECURSIVE MergeLeftShort_Inner(_, _)
MergeLeftShort_Inner(left, right) ==
    IF left = <<>> THEN <<>>
    ELSE LET l == Head(left)
             m == SelectSeq(right, LAMBDA r : r.gvkey = l.gvkey
                                              /\ r.time_avail_m = l.time_avail_m)
         IN  [i \in 1..Len(m) |-> l @@ [shortint |-> m[i].shortint]]
                 \o MergeLeftShort_Inner(Tail(left), right)

\* Faulty variant: the second merge followed by fillna(0) of shortint.
RECURSIVE MergeLeftShort_FillZero(_, _)
MergeLeftShort_FillZero(left, right) ==
    IF left = <<>> THEN <<>>
    ELSE LET l == Head(left)
             m == SelectSeq(right, LAMBDA r : r.gvkey = l.gvkey
                                              /\ r.time_avail_m = l.time_avail_m)
         IN  (IF m = <<>> THEN <<l @@ [shortint |-> Zero]>>
              ELSE [i \in 1..Len(m) |-> l @@ [shortint |-> m[i].shortint]])
                 \o MergeLeftShort_FillZero(Tail(left), right)

\* pd.merge(left, right, on=[gvkey, time_avail_m], how="left"): as above, and a left
\* row without a match is kept with a missing shortint.
RECURSIVE MergeLeftShort(_, _)
MergeLeftShort(left, right) ==
    IF left = <<>> THEN <<>>
    ELSE LET l == Head(left)
             m == SelectSeq(right, LAMBDA r : r.gvkey = l.gvkey
                                              /\ r.time_avail_m = l.time_avail_m)
         IN  (IF m = <<>> THEN <<l @@ [shortint |-> NaN]>>
              ELSE [i \in 1..Len(m) |-> l @@ [shortint |-> m[i].shortint]])
                 \o MergeLeftShort(Tail(left), right)

\* Row a sorts before row b under sort_values([permno, time_avail_m]).
RowBefore(a, b) ==
    \/ a.permno < b.permno
    \/ a.permno = b.permno /\ a.time_avail_m < b.time_avail_m

\* Insert a row into a sorted frame, after the rows that do not sort after it.
RECURSIVE InsertSorted(_, _)
InsertSorted(r, frame) ==
    IF frame = <<>> THEN <<r>>
    ELSE IF RowBefore(r, Head(frame)) THEN <<r>> \o frame
    ELSE <<Head(frame)>> \o InsertSorted(r, Tail(frame))

\* frame.sort_values([permno, time_avail_m]) (stable).
RECURSIVE SortValues(_)
SortValues(frame) ==
    IF frame = <<>> THEN <<>>
    ELSE InsertSorted(frame[Len(frame)], SortValues(SubSeq(frame, 1, Len(frame) - 1)))

\* The value of column col n months before row r for r's permno; missing when the
\* frame has no row of that permno exactly n months earlier.
LagValue(frame, r, col, n) ==
    LET m == SelectSeq(frame, LAMBDA q : q.permno = r.permno
                                         /\ q.time_avail_m = r.time_avail_m - n)
    IN  IF m = <<>> THEN NaN ELSE m[1][col]

\* Faulty variant: values outside [lo, hi] are dropped (set missing) instead of saturated.
Clip_DropsOutliers(x, lo, hi) ==
    IF IsNaN(x) \/ FLt(x, lo) \/ FGt(x, hi) THEN NaN ELSE x

\* series.clip(lo, hi): NaN stays NaN.
Clip(x, lo, hi) ==
    IF IsNaN(x) THEN x
    ELSE IF FLt(x, lo) THEN lo
    ELSE IF FGt(x, hi) THEN hi
    ELSE x
\* The winsorization bound of step 7: clip(-3, 3).
WinsorBound == 3

\* The square root of a value v >= 0, kept exact as its radicand.
Sqrt(v) == [rad |-> v]

\* s > 0 for a square root s.
SqrtPositive(s) == FGt(s.rad, Zero)

\* np.nan in the standardized column.
NaNScore == [num |-> NaN, rad |-> NaN]

\* x / s for a square root s: the value num / sqrt(rad); NaN when x or s is NaN
\* and for 0 / 0.
DivSqrt(x, s) ==
    IF IsNaN(x) \/ IsNaN(s.rad) \/ (x = Zero /\ s.rad = Zero) THEN NaNScore
    ELSE [num |-> x, rad |-> s.rad]

ScoreIsNa(z) == z = NaNScore

RECURSIVE SumRaw(_)
SumRaw(rows) ==
    IF rows = <<>> THEN Zero
    ELSE FAdd(Head(rows).ShortConviction_raw, SumRaw(Tail(rows)))

RECURSIVE SumSqDev(_, _)
SumSqDev(rows, m) ==
    IF rows = <<>> THEN Zero
    ELSE LET dev == FSub(Head(rows).ShortConviction_raw, m)
         IN  FAdd(FMul(dev, dev), SumSqDev(Tail(rows), m))

\* The rows of month t a groupby aggregate reads: those with a non-missing raw score.
GroupRows(frame, t) ==
    SelectSeq(frame, LAMBDA r : r.time_avail_m = t /\ NotNa(r.ShortConviction_raw))

\* groupby(time_avail_m)[ShortConviction_raw].agg("mean"): NaN for an empty group.
GroupMean(rows) ==
    IF rows = <<>> THEN NaN ELSE FDiv(SumRaw(rows), Rat(Len(rows), 1))

\* Faulty variant: the population standard deviation (ddof = 0).
GroupStd_Population(rows) ==
    IF rows = <<>> THEN Sqrt(NaN)
    ELSE Sqrt(FDiv(SumSqDev(rows, GroupMean(rows)), Rat(Len(rows), 1)))

\* .agg("std"): the sample standard deviation (ddof = 1), NaN below two values.
GroupStd(rows) ==
    IF Len(rows) < 2 THEN Sqrt(NaN)
    ELSE Sqrt(FDiv(SumSqDev(rows, GroupMean(rows)), Rat(Len(rows) - 1, 1)))

\* monthly_stats: one row per month of the frame.
MonthlyStats(frame) ==
    [t \in {frame[i].time_avail_m : i \in 1..Len(frame)} |->
        [mean |-> GroupMean(GroupRows(frame, t)), std |-> GroupStd(GroupRows(frame, t))]]

\* np.where((std > 0) & raw.notna(), (raw - mean) / std, np.nan)
Standardized(r) ==
    IF SqrtPositive(r.std) /\ NotNa(r.ShortConviction_raw)
    THEN DivSqrt(FSub(r.ShortConviction_raw, r.mean), r.std)
    ELSE NaNScore

\* frame[[permno, time_avail_m, ShortConviction]]
Project(frame) ==
    [i \in 1..Len(frame) |->
        [permno |-> frame[i].permno, time_avail_m |-> frame[i].time_avail_m,
         ShortConviction |-> frame[i].ShortConviction]]

\* Steps 1-3: SI_ratio, the sort, and the lags of ret (1, 2) and SI_ratio (2).
WithRatio(frame) ==
    [i \in 1..Len(frame) |-> frame[i] @@ [SI_ratio |-> FDiv(frame[i].shortint, frame[i].shrout)]]

stata_multi_lag(frame, col, n, name) ==
    [i \in 1..Len(frame) |-> frame[i] @@ (name :> LagValue(frame, frame[i], col, n))]

WithLags(frame) ==
    LET sorted == SortValues(frame)
        rets == stata_multi_lag(stata_multi_lag(sorted, "ret", 1, "ret_lag1"), "ret", MaxLag, "ret_lag2")
    IN  stata_multi_lag(rets, "SI_ratio", MaxLag, "SI_ratio_lag2")

\* Faulty variant: the cumulative return of the last month alone.
CumRet2m_OneLag(r) == FSub(FAdd(One, r.ret_lag1), One)

\* Step 4: cumret_2m = (1 + ret_lag1) * (1 + ret_lag2) - 1
CumRet2m(r) == FSub(FMul(FAdd(One, r.ret_lag1), FAdd(One, r.ret_lag2)), One)

\* Step 5: SI_pct_change = (SI_ratio - SI_ratio_lag2) / SI_ratio_lag2
SIPctChange(r) == FDiv(FSub(r.SI_ratio, r.SI_ratio_lag2), r.SI_ratio_lag2)

\* Step 6: ShortConviction_raw = -SI_pct_change * cumret_2m
RawScore(pct, cumret) == FMul(FNeg(pct), cumret)

\* Step 7: clip(-3, 3)
Winsorize(x) == Clip(x, Rat(-WinsorBound, 1), Rat(WinsorBound, 1))

WithSignal(frame) ==
    [i \in 1..Len(frame) |->
        LET cumret == CumRet2m(frame[i])
            pct == SIPctChange(frame[i])
        IN  frame[i] @@ [cumret_2m |-> cumret, SI_pct_change |-> pct,
                         ShortConviction_raw |-> Winsorize(RawScore(pct, cumret))]]

\* Step 8: the merge of monthly_stats on time_avail_m and the standardized score.
WithStats(frame) ==
    LET stats == MonthlyStats(frame)
    IN  [i \in 1..Len(frame) |-> frame[i] @@ stats[frame[i].time_avail_m]]

WithScore(frame) ==
    [i \in 1..Len(frame) |-> frame[i] @@ [ShortConviction |-> Standardized(frame[i])]]

\* Step 10: the rows without gvkey, with a missing score.
MissingScore(frame) ==
    [i \in 1..Len(frame) |-> frame[i] @@ [ShortConviction |-> NaNScore]]

(***************************************************************************)
(* The script, statement by statement                                      *)
(***************************************************************************)
Init ==
    /\ pc = "load_master"
    /\ signal_master = <<>>
    /\ monthly_crsp = <<>>
    /\ monthly_short = <<>>
    /\ df = <<>>
    /\ df_missing_gvkey = <<>>
    /\ output = <<>>

\* pd.read_parquet(SignalMasterTable): the table, or an error that ends the run.
LoadMaster ==
    /\ pc = "load_master"
    /\ \/ \E panel \in MasterPanels(MaxEdits) :
            /\ signal_master' = TableOf(panel)
            /\ pc' = "load_crsp"
       \/ /\ pc' = "aborted"
          /\ UNCHANGED signal_master
    /\ UNCHANGED <<monthly_crsp, monthly_short, df, df_missing_gvkey, output>>

\* pd.read_parquet(monthlyCRSP)
LoadCRSP ==
    /\ pc = "load_crsp"
    /\ \/ \E panel \in CrspPanels(MaxEdits - MasterEdits(signal_master)) :
            /\ monthly_crsp' = TableOf(panel)
            /\ pc' = "merge_crsp"
       \/ /\ pc' = "aborted"
          /\ UNCHANGED monthly_crsp
    /\ UNCHANGED <<signal_master, monthly_short, df, df_missing_gvkey, output>>

\* pd.merge(signal_master, monthly_crsp, how="inner", validate="1:1"): MergeError
\* when a key repeats on either side.
MergeCRSP ==
    /\ pc = "merge_crsp"
    /\ IF PermnoKeysUnique(signal_master) /\ PermnoKeysUnique(monthly_crsp)
       THEN /\ df' = MergeInnerCrsp(signal_master, monthly_crsp)
            /\ pc' = "split"
       ELSE /\ pc' = "aborted"
            /\ UNCHANGED df
    /\ UNCHANGED <<signal_master, monthly_crsp, monthly_short, df_missing_gvkey, output>>

\* Faulty variant: the rows without gvkey are copied aside but not filtered out of df.
SplitGvkey_KeepAll ==
    /\ pc = "split"
    /\ df_missing_gvkey' = SelectSeq(df, GvkeyIsNa)
    /\ pc' = "load_short"
    /\ UNCHANGED <<signal_master, monthly_crsp, monthly_short, df, output>>

\* df_missing_gvkey = df[gvkey.isna()]; df = df[gvkey.notna()]
SplitGvkey ==
    /\ pc = "split"
    /\ df_missing_gvkey' = SelectSeq(df, GvkeyIsNa)
    /\ df' = SelectSeq(df, LAMBDA r : ~GvkeyIsNa(r))
    /\ pc' = "load_short"
    /\ UNCHANGED <<signal_master, monthly_crsp, monthly_short, output>>

\* pd.read_parquet(monthlyShortInterest)
LoadShort ==
    /\ pc = "load_short"
    /\ \/ \E panel \in ShortPanels(MaxEdits - MasterEdits(signal_master)
                                      - CrspEdits(monthly_crsp)) :
            /\ monthly_short' = TableOf(panel)
            /\ pc' = "merge_short"
       \/ /\ pc' = "aborted"
          /\ UNCHANGED monthly_short
    /\ UNCHANGED <<signal_master, monthly_crsp, df, df_missing_gvkey, output>>

\* Faulty variant: the second merge without validate="1:1".
MergeShort_NoValidate ==
    /\ pc = "merge_short"
    /\ df' = MergeLeftShort(df, monthly_short)
    /\ pc' = "lag"
    /\ UNCHANGED <<signal_master, monthly_crsp, monthly_short, df_missing_gvkey, output>>

\* pd.merge(df, monthly_short, how="left", validate="1:1")
MergeShort ==
    /\ pc = "merge_short"
    /\ IF GvkeyKeysUnique(df) /\ GvkeyKeysUnique(monthly_short)
       THEN /\ df' = MergeLeftShort(df, monthly_short)
            /\ pc' = "lag"
       ELSE /\ pc' = "aborted"
            /\ UNCHANGED df
    /\ UNCHANGED <<signal_master, monthly_crsp, monthly_short, df_missing_gvkey, output>>

\* Steps 1-3
Lag ==
    /\ pc = "lag"
    /\ df' = WithLags(WithRatio(df))
    /\ pc' = "signal"
    /\ UNCHANGED <<signal_master, monthly_crsp, monthly_short, df_missing_gvkey, output>>

\* Steps 4-7
Signal ==
    /\ pc = "signal"
    /\ df' = WithSignal(df)
    /\ pc' = "standardize"
    /\ UNCHANGED <<signal_master, monthly_crsp, monthly_short, df_missing_gvkey, output>>

\* Step 8
Standardize ==
    /\ pc = "standardize"
    /\ df' = WithScore(WithStats(df))
    /\ pc' = "assemble"
    /\ UNCHANGED <<signal_master, monthly_crsp, monthly_short, df_missing_gvkey, output>>

\* Faulty variant: the rows without gvkey are not appended back.
Assemble_DropMissing ==
    /\ pc = "assemble"
    /\ df_missing_gvkey' = MissingScore(df_missing_gvkey)
    /\ df' = Project(df)
    /\ pc' = "save"
    /\ UNCHANGED <<signal_master, monthly_crsp, monthly_short, output>>

\* Steps 9-10
Assemble ==
    /\ pc = "assemble"
    /\ df_missing_gvkey' = MissingScore(df_missing_gvkey)
    /\ df' = Project(df) \o Project(df_missing_gvkey')
    /\ pc' = "save"
    /\ UNCHANGED <<signal_master, monthly_crsp, monthly_short, output>>

\* save_predictor(df, "ShortConviction")
Save ==
    /\ pc = "save"
    /\ output' = Append(output, df)
    /\ pc' = "done"
    /\ UNCHANGED <<signal_master, monthly_crsp, monthly_short, df, df_missing_gvkey>>

Next ==
    \/ LoadMaster
    \/ LoadCRSP
    \/ MergeCRSP
    \/ SplitGvkey
    \/ LoadShort
    \/ MergeShort
    \/ Lag
    \/ Signal
    \/ Standardize
    \/ Assemble
    \/ Save

Spec == Init /\ [][Next]_vars
(***************************************************************************)
(* Properties                                                              *)
(***************************************************************************)
RowKey(r) == <<r.permno, r.time_avail_m>>

\* Master row i has a share row with the same key.
InJoin(i) ==
    \E j \in 1..Len(monthly_crsp) : RowKey(monthly_crsp[j]) = RowKey(signal_master[i])

\* The indices of the master rows that have a share row with the same key.
JoinedRows == {i \in 1..Len(signal_master) : InJoin(i)}

JoinedKeys == {RowKey(signal_master[i]) : i \in JoinedRows}

\* The joined master rows with a company identifier: the left side of the second join.
CompanyRows == {i \in 1..Len(signal_master) : signal_master[i].gvkey # NoGvkey /\ InJoin(i)}

HasShortMatch(g, t) ==
    \E j \in 1..Len(monthly_short) :
        monthly_short[j].gvkey = g /\ monthly_short[j].time_avail_m = t

RowsWithKey(frame, k) == {i \in 1..Len(frame) : RowKey(frame[i]) = k}

\* C1: on a completed run the frame handed to save_predictor holds exactly one
\* record for each (permno, time_avail_m) of the inner join of the master table
\* with the share table, and no record with another key.
C1_OutputKeysAreJoinKeys ==
    pc = "done" =>
        /\ Len(output) = 1
        /\ LET keys == JoinedKeys
           IN  /\ \A k \in keys : Cardinality(RowsWithKey(output[1], k)) = 1
               /\ \A i \in 1..Len(output[1]) : RowKey(output[1][i]) \in keys

\* A completed run that carved out a row without gvkey and kept company rows.
C1_Witness ==
    /\ pc = "done"
    /\ df_missing_gvkey # <<>>
    /\ Len(output[1]) > Len(df_missing_gvkey)

\* C4: every joined row whose gvkey is missing is in the final output, once, with
\* a missing score.
C4_MissingGvkeyKeptWithNullScore ==
    pc = "done" =>
        \A i \in 1..Len(signal_master) :
            (signal_master[i].gvkey = NoGvkey /\ InJoin(i)) =>
                /\ Cardinality(RowsWithKey(output[1], RowKey(signal_master[i]))) = 1
                /\ \A j \in RowsWithKey(output[1], RowKey(signal_master[i])) :
                       ScoreIsNa(output[1][j].ShortConviction)

\* A completed run with a joined row without gvkey and a company row with a score.
C4_Witness ==
    /\ pc = "done"
    /\ \E i \in 1..Len(signal_master) : signal_master[i].gvkey = NoGvkey /\ InJoin(i)
    /\ \E j \in 1..Len(output[1]) : ~ScoreIsNa(output[1][j].ShortConviction)

BeforeMergeCRSP == pc \in {"load_master", "load_crsp", "merge_crsp"}

BeforeMergeShort == BeforeMergeCRSP \/ pc \in {"split", "load_short", "merge_short"}

GvkeyKey(r) == <<r.gvkey, r.time_avail_m>>

\* Two joined company rows share (gvkey, time_avail_m): fewer keys than rows.
CompanyKeyRepeats ==
    Cardinality({GvkeyKey(signal_master[i]) : i \in CompanyRows}) < Cardinality(CompanyRows)

\* Two rows of the short interest table share (gvkey, time_avail_m).
ShortKeyRepeats ==
    Cardinality({GvkeyKey(monthly_short[i]) : i \in 1..Len(monthly_short)}) < Len(monthly_short)

\* Two rows of the table share (permno, time_avail_m).
PermnoKeyRepeats(table) ==
    Cardinality({RowKey(table[i]) : i \in 1..Len(table)}) < Len(table)

\* C6: save_predictor is reached only on full success.  A run that stopped at a
\* failed load or merge wrote nothing; once a merge is past, a repeated key on
\* either of its sides has stopped the run; and no merge multiplies rows.
C6_OutputOnlyOnSuccess ==
    /\ pc = "aborted" => output = <<>>
    /\ output # <<>> => pc = "done" /\ Len(output) = 1
    /\ (~BeforeMergeCRSP /\ (PermnoKeyRepeats(signal_master) \/ PermnoKeyRepeats(monthly_crsp)))
           => pc = "aborted"
    /\ (~BeforeMergeShort /\ (CompanyKeyRepeats \/ ShortKeyRepeats)) => pc = "aborted"
    /\ IF pc \in {"save", "done"} THEN Len(df) <= Len(signal_master)
       ELSE Len(df) + Len(df_missing_gvkey) <= Len(signal_master)

\* The run stopped at the second merge, on a repeated (gvkey, time_avail_m).
C6_Witness ==
    /\ pc = "aborted"
    /\ monthly_short # <<>>
    /\ CompanyKeyRepeats \/ ShortKeyRepeats

\* The raw score of a row before the clip, from the row's own columns.
Unclipped(r) == RawScore(r.SI_pct_change, r.cumret_2m)

InClipRange(x) ==
    /\ IsFinite(x)
    /\ -WinsorBound * x[2] <= x[1]
    /\ x[1] <= WinsorBound * x[2]

\* C7: when the monthly mean and standard deviation are about to be computed,
\* every raw score is missing or in [-3, 3]: a missing score stayed missing, a
\* score in range is unchanged, and a score outside is at the nearer bound.
C7_RawClipped ==
    pc = "standardize" =>
        \A i \in 1..Len(df) :
            LET u == Unclipped(df[i])
                x == df[i].ShortConviction_raw
            IN  /\ IsNaN(x) \/ InClipRange(x)
                /\ IsNaN(u) <=> IsNaN(x)
                /\ InClipRange(u) => x = u
                /\ (NotNa(u) /\ ~InClipRange(u) /\ u[1] > 0) => x = <<WinsorBound, 1>>
                /\ (NotNa(u) /\ ~InClipRange(u) /\ u[1] < 0) => x = <<-WinsorBound, 1>>

\* A finite raw score below -3 and a missing one reach the statistics step.
C7_Witness ==
    /\ pc = "standardize"
    /\ \E i \in 1..Len(df) :
           /\ IsFinite(Unclipped(df[i]))
           /\ ~InClipRange(Unclipped(df[i]))
    /\ \E i \in 1..Len(df) : IsNaN(Unclipped(df[i]))

\* C9: a row whose short interest ratio rose from a positive ratio two months
\* before, while the two-month return was positive, has a positive raw score.
C9_PositiveWhenShortsRoseWithPrice ==
    pc = "standardize" =>
        \A i \in 1..Len(df) :
            (/\ FGt(df[i].SI_ratio_lag2, Zero)
             /\ FGt(df[i].SI_ratio, df[i].SI_ratio_lag2)
             /\ FGt(df[i].cumret_2m, Zero))
                => FGt(df[i].ShortConviction_raw, Zero)
StdPositive(r) == FGt(r.std.rad, Zero)

\* The quotient or the product of steps 5-6 is an undefined floating-point form
\* although its operands are present: inf - inf or inf / inf (the ratio two months
\* before is infinite), 0 / 0, or 0 * inf.
UndefinedForm(r) ==
    \/ (NotNa(r.SI_ratio_lag2) /\ ~IsFinite(r.SI_ratio_lag2))
    \/ (r.SI_ratio_lag2 = Zero /\ r.SI_ratio = Zero)
    \/ (r.cumret_2m = Zero /\ NotNa(r.SI_ratio)
            /\ (r.SI_ratio_lag2 = Zero \/ ~IsFinite(r.SI_ratio)))

C3_DivisionByZeroIsNull ==
    pc = "assemble" =>
        \A i \in 1..Len(df) :
            (df[i].SI_ratio_lag2 = Zero \/ df[i].shrout = Zero) =>
                /\ IsNaN(df[i].SI_pct_change)
                /\ IsNaN(df[i].ShortConviction_raw)
                /\ ScoreIsNa(df[i].ShortConviction)

\* Row j counts for the statistics of month t.
InCohort(j, t) == df[j].time_avail_m = t /\ NotNa(df[j].ShortConviction_raw)

Cohort(t) == {j \in 1..Len(df) : InCohort(j, t)}

RECURSIVE CohortSum(_, _)
CohortSum(t, k) ==
    IF k = 0 THEN Zero
    ELSE FAdd(CohortSum(t, k - 1),
              IF InCohort(k, t) THEN df[k].ShortConviction_raw ELSE Zero)

RECURSIVE CohortSumSq(_, _)
CohortSumSq(t, k) ==
    IF k = 0 THEN Zero
    ELSE FAdd(CohortSumSq(t, k - 1),
              IF InCohort(k, t)
              THEN FMul(df[k].ShortConviction_raw, df[k].ShortConviction_raw) ELSE Zero)

\* C5: a month's mean and sample standard deviation are those of its non-missing
\* clipped raw scores (n * mean is their sum, (n - 1) * std^2 is the sum of their
\* squares less n * mean^2, both missing without values and std missing below two
\* values); a row's score is (raw - mean) / std when std > 0 and raw is present
\* and missing otherwise, so missing in a month with fewer than two values or
\* with all values equal.
C5_StandardizedByMonth ==
    pc = "assemble" =>
        \A i \in 1..Len(df) :
            LET r == df[i]
                n == Cardinality(Cohort(r.time_avail_m))
                sum == CohortSum(r.time_avail_m, Len(df))
                sumsq == CohortSumSq(r.time_avail_m, Len(df))
                equal == \A j, k \in 1..Len(df) :
                             (InCohort(j, r.time_avail_m) /\ InCohort(k, r.time_avail_m))
                                 => df[j].ShortConviction_raw = df[k].ShortConviction_raw
            IN  /\ IF n = 0 THEN IsNaN(r.mean) ELSE FMul(Rat(n, 1), r.mean) = sum
                /\ IF n < 2 THEN IsNaN(r.std.rad)
                   ELSE FMul(Rat(n - 1, 1), r.std.rad)
                            = FSub(sumsq, FMul(Rat(n, 1), FMul(r.mean, r.mean)))
                /\ IF StdPositive(r) /\ NotNa(r.ShortConviction_raw)
                   THEN /\ r.ShortConviction.num = FSub(r.ShortConviction_raw, r.mean)
                        /\ r.ShortConviction.rad = r.std.rad
                   ELSE ScoreIsNa(r.ShortConviction)
                /\ (n < 2 \/ equal) => ScoreIsNa(r.ShortConviction)

\* A month with a positive standard deviation holds a row with a score away from
\* the mean and a row whose raw score is missing.
C5_Witness ==
    /\ pc = "assemble"
    /\ \E i, j \in 1..Len(df) :
           /\ df[i].time_avail_m = df[j].time_avail_m
           /\ ~ScoreIsNa(df[i].ShortConviction)
           /\ df[i].ShortConviction.num # Zero
           /\ IsNaN(df[j].ShortConviction_raw)

\* C8: a joined company row without a short interest row for its (gvkey, month)
\* is kept, once, with shortint, SI_ratio, SI_pct_change, the raw score and the
\* score all missing; the second merge stops the run only on a repeated key.
C8_NoShortInterestMatch ==
    /\ pc = "assemble" =>
        \A i \in CompanyRows :
            ~HasShortMatch(signal_master[i].gvkey, signal_master[i].time_avail_m) =>
                /\ Cardinality(RowsWithKey(df, RowKey(signal_master[i]))) = 1
                /\ \A j \in RowsWithKey(df, RowKey(signal_master[i])) :
                       /\ IsNaN(df[j].shortint)
                       /\ IsNaN(df[j].SI_ratio)
                       /\ IsNaN(df[j].SI_pct_change)
                       /\ IsNaN(df[j].ShortConviction_raw)
                       /\ ScoreIsNa(df[j].ShortConviction)
    /\ (pc = "aborted" /\ monthly_short # <<>>) => (CompanyKeyRepeats \/ ShortKeyRepeats)

\* A company row without a match, two months after a row of its security that
\* had one, in a month where another row has a score.
C8_Witness ==
    /\ pc = "assemble"
    /\ \E i \in CompanyRows :
           /\ ~HasShortMatch(signal_master[i].gvkey, signal_master[i].time_avail_m)
           /\ \E j \in RowsWithKey(df, RowKey(signal_master[i])) :
                  /\ NotNa(df[j].SI_ratio_lag2)
                  /\ StdPositive(df[j])

\* The joined master rows of permno p in month t without gvkey.
CarvedOut(p, t) ==
    {i \in 1..Len(signal_master) : /\ signal_master[i].permno = p
                                   /\ signal_master[i].time_avail_m = t
                                   /\ signal_master[i].gvkey = NoGvkey
                                   /\ InJoin(i)}

\* C10: a company row has a missing score when its security's row one or two
\* months earlier has no gvkey, whatever that row's return and shares are.
C10_LagsSkipCarvedOutRows ==
    pc = "assemble" =>
        \A i \in 1..Len(df) :
            (CarvedOut(df[i].permno, df[i].time_avail_m - 1)
                 \cup CarvedOut(df[i].permno, df[i].time_avail_m - 2)) # {}
                => ScoreIsNa(df[i].ShortConviction)

\* The carved-out row holds a return, and the later row lacks nothing else: its
\* ratios are present and its month's standard deviation is positive.
C10_Witness ==
    /\ pc = "assemble"
    /\ \E i \in 1..Len(df) :
           /\ \E k \in CarvedOut(df[i].permno, df[i].time_avail_m - 1) :
                  NotNa(signal_master[k].ret)
           /\ NotNa(df[i].SI_ratio)
           /\ FGt(df[i].SI_ratio_lag2, Zero)
           /\ StdPositive(df[i])
====
